---- MODULE Spec2Model ----
(***************************************************************************)
(* Gyro-aided feature tracker (GyroTracker::addFrame / matchFeatures) and  *)
(* the linear N-view triangulation status logic of aslam_cv.               *)
(*                                                                         *)
(* A fatal glog CHECK is modelled as an abort: the operator that models    *)
(* the checked code returns the name of the failed check, and the action   *)
(* records it; an aborted tracker takes no further step.                   *)
(***************************************************************************)
EXTENDS Integers, Sequences, FiniteSets, TLC

VARIABLES previous_frame_ptr_, previous_track_lengths_, current_track_id_, call, probe

vars == <<previous_frame_ptr_, previous_track_lengths_, current_track_id_, call, probe>>

(***************************************************************************)
(* Bounds of the model (inputs of the program, not program constants).     *)
(***************************************************************************)
\* Largest number of keypoints of a frame handed to addFrame.
MaxKeypoints == 2
\* Largest hardware timestamp of a frame handed to addFrame.
MaxTime == 3
\* Camera image size (camera_->imageWidth(), camera_->imageHeight()).
ImageWidth == 32
ImageHeight == 16
\* Descriptor width in bytes of the frames handed to addFrame.
DescriptorSizeBytes == 16
\* Largest descriptor width in bytes tried on the distance kernel alone.
MaxKernelBytes == 2
\* Largest number of measurements handed to the triangulation.
MaxMeasurements == 12
\* Largest number of matches handed to the admission stage alone.
MaxMatches == 5

(***************************************************************************)
(* Program constants.                                                      *)
(***************************************************************************)
min_search_radius == 5
search_radius == 10
kMatchingThresholdBits == 120
kMaxScore == 512
kNumberOfTrackingBuckets == 2
kNumberOfKeyPointsUseUnconditional == 1
kNumberOfKeyPointsUseStrong == 4
kKeypointScoreThresholdUnconditional == 2
kKeypointScoreThresholdStrong == 1
\* Value of current_track_id_ after construction.
kInitialTrackId == 0

Min(a, b) == IF a < b THEN a ELSE b
Max(a, b) == IF a > b THEN a ELSE b

(***************************************************************************)
(* Bit distance kernel: the lambda hammingDistance512.                     *)
(***************************************************************************)
RECURSIVE BitXor(_, _)
\* unsigned char val = *(x + i) ^ *(y + i)
BitXor(a, b) ==
  IF a = 0 /\ b = 0 THEN 0
  ELSE (IF a % 2 = b % 2 THEN 0 ELSE 1) + 2 * BitXor(a \div 2, b \div 2)

RECURSIVE BitAnd(_, _)
BitAnd(a, b) ==
  IF a = 0 \/ b = 0 THEN 0
  ELSE (IF a % 2 = 1 /\ b % 2 = 1 THEN 1 ELSE 0) + 2 * BitAnd(a \div 2, b \div 2)

RECURSIVE CountBits(_)
\* while(val) { ++distance; val &= val - 1; }
CountBits(val) == IF val = 0 THEN 0 ELSE 1 + CountBits(BitAnd(val, val - 1))

RECURSIVE SumBits(_, _, _)
\* for(unsigned int i = 0; i < descriptorSizeBytes; i++) ...
SumBits(x, y, i) ==
  IF i > Len(x) THEN 0 ELSE CountBits(BitXor(x[i], y[i])) + SumBits(x, y, i + 1)

\* The distance, or the failed CHECK_LT(distance, descriptorSizeBytes * 8).
hammingDistance512(x, y) ==
  LET distance == SumBits(x, y, 1)
  IN  IF distance < Len(x) * 8
        THEN [abort |-> "none", distance |-> distance]
        ELSE [abort |-> "hamming_distance", distance |-> distance]

(***************************************************************************)
(* Frames.  A keypoint is [x, y, desc, score]; a frame holds its hardware  *)
(* timestamp, its keypoints and its track-id channel.                      *)
(***************************************************************************)
NullFrame == [present |-> FALSE, ts |-> 0, kps |-> <<>>, ids |-> <<>>]

Range(s) == {s[k] : k \in 1..Len(s)}

RECURSIVE SortedOrders(_, _)
\* The results std::sort may give with the comparison key[a] < key[b]: the
\* sequences listing each element of S once such that no element has a smaller
\* key than one before it (std::sort is not stable, so elements of equal key
\* come in any order).
SortedOrders(S, key) ==
  IF S = {} THEN {<<>>}
  ELSE UNION {{<<x>> \o rest : rest \in SortedOrders(S \ {x}, key)} :
                x \in {y \in S : \A z \in S : ~(key[z] < key[y])}}

(***************************************************************************)
(* Inputs of addFrame.                                                     *)
(***************************************************************************)
\* The descriptors of the keypoints, by name; a keypoint holds the name.
DescriptorNames == {"zero", "near", "far"}

\* The bytes of a descriptor (getDescriptor): "far" is 120 bits away from "zero",
\* which is not below kMatchingThresholdBits; "near" is 8 bits away from "zero"
\* and 112 bits from "far".
DescriptorBytes(name) ==
  [k \in 1..DescriptorSizeBytes |->
     IF name = "far" /\ k <= 15 THEN 255
     ELSE IF name = "near" /\ k = 1 THEN 255
     ELSE 0]

\* The keypoints frames are made of: all inside the image.
KeypointPool ==
  { [x |-> 4,  y |-> 4,  desc |-> "zero", score |-> 2],
    [x |-> 4,  y |-> 4,  desc |-> "zero", score |-> 0],
    [x |-> 20, y |-> 12, desc |-> "zero", score |-> 2],
    [x |-> 20, y |-> 12, desc |-> "zero", score |-> 1],
    [x |-> 4,  y |-> 4,  desc |-> "far", score |-> 2] }

\* hammingDistance512 on the descriptors of the keypoints, evaluated once.
DescriptorDistances ==
  {[x |-> x, y |-> y,
    result |-> hammingDistance512(DescriptorBytes(x), DescriptorBytes(y))] :
     x \in DescriptorNames, y \in DescriptorNames}

\* The call hammingDistance512(x, y) of the match search.
DescriptorDistance(x, y) ==
  (CHOOSE e \in DescriptorDistances : e.x = x /\ e.y = y).result

(***************************************************************************)
(* GyroTracker::matchFeatures.                                             *)
(***************************************************************************)
\* The orders std::sort may leave the keypoints in: ascending y-coordinate,
\* keypoints of equal y in any order (std::sort is not stable).
SortedByY(kps) ==
  SortedOrders(1..Len(kps), [k \in 1..Len(kps) |-> kps[k].y])

RECURSIVE AdvanceCursor(_, _, _, _)
\* while (v < current_num_pts && y > current_keypoints_by_y[v].measurement(1)) ++v;
AdvanceCursor(kps, order, y, v) ==
  IF v < Len(kps) /\ y > kps[order[v + 1]].y
    THEN AdvanceCursor(kps, order, y, v + 1)
    ELSE v

RECURSIVE BuildRowLUT(_, _, _, _)
\* for (size_t y = 0; y < image_height; ++y) { ...; corner_row_LUT.push_back(v); }
BuildRowLUT(kps, order, y, v) ==
  IF y >= ImageHeight THEN <<>>
  ELSE LET v2 == AdvanceCursor(kps, order, y, v)
       IN  <<v2>> \o BuildRowLUT(kps, order, y + 1, v2)

\* corner_row_LUT; entry y of the code is element y + 1 here.
corner_row_LUT(kps, order) == BuildRowLUT(kps, order, 0, 0)

\* std::min<int>(std::max<int>(in, lower), upper)
clamp(lower, upper, in) == Min(Max(in, lower), upper)

\* The int that a double n + 0.5 (n an integer) converts to: truncation toward zero.
TruncHalf(n) == IF n >= 0 THEN n ELSE n + 1

\* One search loop over the sorted range [it, end) of the current keypoints.
\* st = [found, best_score, best, processed, abort].
RECURSIVE SearchPass(_, _, _, _, _, _, _, _, _)
SearchPass(kps, order, pred, prev_desc, it, end, radius, large, st) ==
  IF it >= end \/ st.abort # "none" THEN st
  ELSE
    LET idx == order[it + 1]
        kp  == kps[idx]
        dx  == pred.x - kp.x
        dy  == pred.y - kp.y
    IN  IF large /\ idx \in st.processed
          THEN SearchPass(kps, order, pred, prev_desc, it + 1, end, radius, large, st)
        ELSE IF kp.x < pred.x - radius \/ kp.x > pred.x + radius
          THEN SearchPass(kps, order, pred, prev_desc, it + 1, end, radius, large, st)
        ELSE
          LET h == DescriptorDistance(prev_desc, kp.desc)
              current_score == kMaxScore - h.distance
          IN  IF h.abort # "none" THEN [st EXCEPT !.abort = h.abort]
              ELSE IF current_score > st.best_score
                THEN IF dx * dx + dy * dy < (radius * 2) * (radius * 2)
                       THEN SearchPass(kps, order, pred, prev_desc, it + 1, end, radius, large,
                              [st EXCEPT !.found = TRUE, !.best_score = current_score,
                                         !.best = idx, !.processed = @ \cup {idx}])
                       ELSE [st EXCEPT !.abort = "match_distance"]
                ELSE SearchPass(kps, order, pred, prev_desc, it + 1, end, radius, large,
                       [st EXCEPT !.processed = @ \cup {idx}])

\* The body of the loop over the previous keypoints, for one previous keypoint.
SearchOne(kps, order, lut, pred, prev_desc) ==
  LET idxnearest0 == clamp(0, ImageHeight - 1, TruncHalf(pred.y - min_search_radius))
      idxnearest1 == clamp(0, ImageHeight - 1, TruncHalf(pred.y + min_search_radius))
      idxnear0 == clamp(0, ImageHeight - 1, TruncHalf(pred.y - search_radius))
      idxnear1 == clamp(0, ImageHeight - 1, TruncHalf(pred.y + search_radius))
      nearest_top == Min(idxnearest0, Len(lut) - 1)
      nearest_bottom == Min(idxnearest1 + 1, Len(lut) - 1)
      near_top == Min(idxnear0, Len(lut) - 1)
      near_bottom == Min(idxnear1 + 1, Len(lut) - 1)
      st0 == [found |-> FALSE, best_score |-> kMaxScore - kMatchingThresholdBits,
              best |-> 0, processed |-> {}, abort |-> "none"]
      st1 == SearchPass(kps, order, pred, prev_desc, lut[nearest_top + 1],
                        lut[nearest_bottom + 1], min_search_radius, FALSE, st0)
  IN  IF st1.abort # "none" \/ st1.found THEN st1
      ELSE SearchPass(kps, order, pred, prev_desc, lut[near_top + 1],
                      lut[near_bottom + 1], search_radius, TRUE, st1)

RECURSIVE MatchLoop(_, _, _, _, _, _, _)
\* for (int i = 0; i < prev_num_pts; ++i) { ... emplace_back(i, it_best->index) ... }
MatchLoop(kps, order, lut, prev_kps, predicted, i, acc) ==
  IF i > Len(prev_kps) THEN [abort |-> "none", matches |-> acc]
  ELSE LET st == SearchOne(kps, order, lut, predicted[i], prev_kps[i].desc)
       IN  IF st.abort # "none" THEN [abort |-> st.abort, matches |-> acc]
           ELSE MatchLoop(kps, order, lut, prev_kps, predicted, i + 1,
                          IF st.found THEN Append(acc, <<i, st.best>>) ELSE acc)

\* matches_prev_current (pairs <<index in previous, index in current>>, 1-based),
\* or the CHECK that failed.  order is the result of the sort by y and predicted
\* the previous keypoints as predicted into the current image.
matchFeatures(kps, order, prev_kps, predicted) ==
  IF ~(DescriptorSizeBytes * 8 < kMaxScore)
    THEN [abort |-> "descriptor_size", matches |-> <<>>]
    ELSE MatchLoop(kps, order, corner_row_LUT(kps, order), prev_kps, predicted, 1, <<>>)

(***************************************************************************)
(* GyroTracker::addFrame: bucketed admission and the track-id ledger.      *)
(***************************************************************************)
NumBuckets == kNumberOfTrackingBuckets * kNumberOfTrackingBuckets

\* The lambda compute_bin_index: floor(y / (H / B)) * B + floor(x / (W / B)),
\* or -1 when CHECK_GE(bin_index, 0) or CHECK_LT(bin_index, buckets.size()) fails.
compute_bin_index(kp) ==
  LET bin_x == (kp.x * kNumberOfTrackingBuckets) \div ImageWidth
      bin_y == (kp.y * kNumberOfTrackingBuckets) \div ImageHeight
      bin_index == bin_y * kNumberOfTrackingBuckets + bin_x
  IN  IF bin_index >= 0 /\ bin_index < NumBuckets THEN bin_index ELSE -1

\* buckets[bin_index].push_back(0); candidates_new_tracks.push_back(match).
\* how records, for each entry of candidates_new_tracks, the stage that pushed it,
\* its bucket and the size of that bucket after the push.
Accept(st, match, bin_index, stage) ==
  [st EXCEPT !.buckets[bin_index] = @ + 1,
             !.new_tracks = Append(@, match),
             !.how = Append(@, [stage |-> stage, bin |-> bin_index,
                                size |-> st.buckets[bin_index] + 1])]

RECURSIVE ContinuedLoop(_, _, _, _, _, _)
\* Lines 88-106: copy id and length of the matched previous keypoint, accept the
\* match when the copied id is non-negative.
ContinuedLoop(matches, prev_ids, prev_lens, kps, i, st) ==
  IF i > Len(matches) \/ st.abort # "none" THEN st
  ELSE
    LET first  == matches[i][1]
        second == matches[i][2]
        st1 == [st EXCEPT !.ids[second] = prev_ids[first],
                          !.lens[second] = prev_lens[first] + 1]
        bin_index == compute_bin_index(kps[second])
    IN  IF ~(first <= Len(prev_ids) /\ second <= Len(st.ids))
          THEN [st EXCEPT !.abort = "match_index"]
        ELSE IF st1.ids[second] >= 0
          THEN IF bin_index = -1 THEN [st1 EXCEPT !.abort = "bin_index"]
               ELSE ContinuedLoop(matches, prev_ids, prev_lens, kps, i + 1,
                                  Accept(st1, matches[i], bin_index, "continued"))
        ELSE ContinuedLoop(matches, prev_ids, prev_lens, kps, i + 1, st1)

\* Lines 110-121: the indices of the matches whose current keypoint is untracked
\* after the first loop, in match order.
NewTrackCandidates(matches, ids) ==
  SelectSeq([k \in 1..Len(matches) |-> k], LAMBDA k : ids[matches[k][2]] < 0)

\* Lines 123-126: the orders std::sort may leave the candidates in: ascending
\* keypoint score, candidates of equal score in any order.
SortedByScore(cands, matches, kps) ==
  SortedOrders(Range(cands), [c \in Range(cands) |-> kps[matches[c][2]].score])

RECURSIVE UnconditionalLoop(_, _, _, _, _, _)
\* Lines 128-150, for candidate_idx (0-based) from the given value up to end.
UnconditionalLoop(candidates, matches, kps, candidate_idx, end, st) ==
  IF candidate_idx >= end \/ st.abort # "none" THEN st
  ELSE
    LET match_idx == candidates[candidate_idx + 1]
        index_in_curr == matches[match_idx][2]
        bin_index == compute_bin_index(kps[index_in_curr])
    IN  IF kps[index_in_curr].score < kKeypointScoreThresholdUnconditional
          THEN UnconditionalLoop(candidates, matches, kps, candidate_idx + 1, end, st)
        ELSE IF bin_index = -1 THEN [st EXCEPT !.abort = "bin_index"]
        ELSE UnconditionalLoop(candidates, matches, kps, candidate_idx + 1, end,
                               Accept(st, matches[match_idx], bin_index, "unconditional"))

RECURSIVE StrongLoopNoGate(_, _, _, _, _, _)
\* The second admission loop without the test of the bucket size.
StrongLoopNoGate(candidates, matches, kps, candidate_idx, end, st) ==
  IF candidate_idx >= end \/ st.abort # "none" THEN st
  ELSE
    LET match_idx == candidates[candidate_idx + 1]
        index_in_curr == matches[match_idx][2]
        bin_index == compute_bin_index(kps[index_in_curr])
    IN  IF kps[index_in_curr].score < kKeypointScoreThresholdStrong
          THEN StrongLoopNoGate(candidates, matches, kps, candidate_idx + 1, end, st)
        ELSE IF bin_index = -1 THEN [st EXCEPT !.abort = "bin_index"]
        ELSE StrongLoopNoGate(candidates, matches, kps, candidate_idx + 1, end,
                              Accept(st, matches[match_idx], bin_index, "strong"))

RECURSIVE StrongLoop(_, _, _, _, _, _)
\* Lines 152-180, for candidate_idx (0-based) from the given value up to end.
StrongLoop(candidates, matches, kps, candidate_idx, end, st) ==
  IF candidate_idx >= end \/ st.abort # "none" THEN st
  ELSE
    LET match_idx == candidates[candidate_idx + 1]
        index_in_curr == matches[match_idx][2]
        bin_index == compute_bin_index(kps[index_in_curr])
        num_pts_per_bucket == kNumberOfKeyPointsUseStrong \div NumBuckets
    IN  IF kps[index_in_curr].score < kKeypointScoreThresholdStrong
          THEN StrongLoop(candidates, matches, kps, candidate_idx + 1, end, st)
        ELSE IF bin_index = -1 THEN [st EXCEPT !.abort = "bin_index"]
        ELSE IF st.buckets[bin_index] < num_pts_per_bucket
          THEN StrongLoop(candidates, matches, kps, candidate_idx + 1, end,
                          Accept(st, matches[match_idx], bin_index, "strong"))
        ELSE StrongLoop(candidates, matches, kps, candidate_idx + 1, end,
                        [st EXCEPT !.bucket_too_full = @ + 1])

\* The first admission loop runs over all candidates.
UnconditionalEndAll(candidates) == Len(candidates)

\* The upper limit of the first admission loop.
UnconditionalEnd(candidates) == Min(kNumberOfKeyPointsUseUnconditional, Len(candidates))

\* The upper limit of the second admission loop.
StrongEnd(candidates) == Min(kNumberOfKeyPointsUseStrong, Len(candidates))

\* Lines 82-180 for one outcome of the sort of the candidates: the state after the
\* two admission loops.  candidates is the sorted candidate list.
Admission(matches, prev_ids, prev_lens, kps, candidates, st1) ==
  LET st2 == UnconditionalLoop(candidates, matches, kps, 0, UnconditionalEnd(candidates), st1)
  IN  StrongLoop(candidates, matches, kps, UnconditionalEnd(candidates),
                 StrongEnd(candidates), st2)

\* Lines 82-106: the working state of addFrame after the first loop.
ContinuedTracks(matches, prev_ids, prev_lens, kps) ==
  ContinuedLoop(matches, prev_ids, prev_lens, kps, 1,
    [ids |-> [k \in 1..Len(kps) |-> -1],
     lens |-> [k \in 1..Len(kps) |-> 0],
     buckets |-> [b \in 0..(NumBuckets - 1) |-> 0],
     new_tracks |-> <<>>, how |-> <<>>, bucket_too_full |-> 0, abort |-> "none"])

\* new_track_id = current_track_id_ without the increment.
NewTrackNoIncrement(st, index_previous_frame, index_current_frame) ==
  [st EXCEPT !.allocated = Append(@, st.next_id + 1),
             !.ids[index_current_frame] = st.next_id + 1,
             !.prev_ids[index_previous_frame] = st.next_id + 1,
             !.lens[index_current_frame] = 2]

\* The new id is not written to the previous frame.
NewTrackNoBackfill(st, index_previous_frame, index_current_frame) ==
  [st EXCEPT !.next_id = st.next_id + 1,
             !.allocated = Append(@, st.next_id + 1),
             !.ids[index_current_frame] = st.next_id + 1,
             !.lens[index_current_frame] = 2]

\* The length of the new track is left as the first loop set it.
NewTrackKeepsLength(st, index_previous_frame, index_current_frame) ==
  [st EXCEPT !.next_id = st.next_id + 1,
             !.allocated = Append(@, st.next_id + 1),
             !.ids[index_current_frame] = st.next_id + 1,
             !.prev_ids[index_previous_frame] = st.next_id + 1]

\* Lines 197-201: a new track is born.  allocated lists the ids handed out by the
\* loop, in order.
NewTrack(st, index_previous_frame, index_current_frame) ==
  [st EXCEPT !.next_id = st.next_id + 1,
             !.allocated = Append(@, st.next_id + 1),
             !.ids[index_current_frame] = st.next_id + 1,
             !.prev_ids[index_previous_frame] = st.next_id + 1,
             !.lens[index_current_frame] = 2]

RECURSIVE LedgerLoop(_, _, _)
\* Lines 187-204.  st = [ids, lens, prev_ids, next_id, allocated, abort].
LedgerLoop(new_tracks, i, st) ==
  IF i > Len(new_tracks) \/ st.abort # "none" THEN st
  ELSE
    LET index_previous_frame == new_tracks[i][1]
        index_current_frame  == new_tracks[i][2]
    IN  IF st.ids[index_current_frame] = -1
          THEN IF ~(index_previous_frame <= Len(st.prev_ids))
                 THEN [st EXCEPT !.abort = "previous_index"]
               ELSE IF st.prev_ids[index_previous_frame] # -1
                 THEN [st EXCEPT !.abort = "new_track_previous_id"]
               ELSE LedgerLoop(new_tracks, i + 1,
                      NewTrack(st, index_previous_frame, index_current_frame))
        ELSE LedgerLoop(new_tracks, i + 1, st)

\* The ledger numbers the new tracks of every call from the initial id.
LedgerRestartsIds(adm, prev_ids, next_id) ==
  LedgerLoop(adm.new_tracks, 1,
    [ids |-> adm.ids, lens |-> adm.lens, prev_ids |-> prev_ids,
     next_id |-> kInitialTrackId, allocated |-> <<>>, abort |-> "none"])

\* Lines 182-204: the ledger, from the working state adm of the admission.
Ledger(adm, prev_ids, next_id) ==
  LedgerLoop(adm.new_tracks, 1,
    [ids |-> adm.ids, lens |-> adm.lens, prev_ids |-> prev_ids,
     next_id |-> next_id, allocated |-> <<>>, abort |-> "none"])

(***************************************************************************)
(* Inputs of addFrame, continued.                                          *)
(***************************************************************************)
\* The keypoint lists of the frames handed to addFrame.
FrameKeypoints == UNION {[1..n -> KeypointPool] : n \in 0..MaxKeypoints}

\* The displacements of the previous keypoints by the predicted rotation
\* (backProject3, C_current_prev *, project3), in pixels.
Shifts == {<<0, 0>>, <<7, 0>>, <<12, 0>>}

\* Lines 261-282: the previous keypoints as predicted into the current image; the
\* camera's answer for a keypoint is the keypoint moved by shift.
PredictedKeypoints(prev_kps, shift) ==
  [i \in 1..Len(prev_kps) |->
     [x |-> prev_kps[i].x + shift[1], y |-> prev_kps[i].y + shift[2]]]

\* The hardware timestamps tried for the next frame: the previous one and the next.
Timestamps == {t \in {previous_frame_ptr_.ts, previous_frame_ptr_.ts + 1} :
                 t >= 1 /\ t <= MaxTime}

NoCall ==
  [kind |-> "none", check |-> "none", kps |-> <<>>, matches |-> <<>>,
   candidates |-> <<>>, new_tracks |-> <<>>, how |-> <<>>,
   prev_ids_before |-> <<>>, prev_ids_after |-> <<>>, prev_lens_before |-> <<>>,
   id_before |-> kInitialTrackId, allocated |-> <<>>, ids |-> <<>>, lens |-> <<>>]

\* std::vector::resize(n, value): the first n elements kept, value appended.
Resize(v, n, value) == [k \in 1..n |-> IF k <= Len(v) THEN v[k] ELSE value]

(***************************************************************************)
(* State after construction (lines 16-18).                                 *)
(***************************************************************************)
Init ==
  /\ previous_frame_ptr_ = NullFrame
  /\ previous_track_lengths_ = <<>>
  /\ current_track_id_ = kInitialTrackId
  /\ call = NoCall
  /\ probe = [op |-> "none"]

\* Only the first frame initializes.
InitializesFirstOnly(kps) == ~previous_frame_ptr_.present

\* Lines 28-29: the condition of the initializing branch.
Initializes(kps) == ~previous_frame_ptr_.present \/ Len(kps) = 0

\* addFrame, lines 25-38: first frame, or a frame without keypoints.
AddFrameInitialize ==
  /\ call.kind # "fatal"
  /\ \E kps \in FrameKeypoints, ts \in Timestamps :
       /\ Initializes(kps)
       /\ previous_frame_ptr_' = [present |-> TRUE, ts |-> ts, kps |-> kps,
                                  ids |-> [k \in 1..Len(kps) |-> -1]]
       /\ previous_track_lengths_' = Resize(previous_track_lengths_, Len(kps), 0)
       /\ current_track_id_' = current_track_id_
       /\ call' = [NoCall EXCEPT !.kind = "init", !.kps = kps,
                     !.prev_ids_before = previous_frame_ptr_.ids,
                     !.prev_ids_after = previous_frame_ptr_.ids,
                     !.prev_lens_before = previous_track_lengths_,
                     !.id_before = current_track_id_,
                     !.ids = [k \in 1..Len(kps) |-> -1],
                     !.lens = Resize(previous_track_lengths_, Len(kps), 0)]
  /\ UNCHANGED probe

\* Lines 53-106: the matches and the working state after the first loop, for one
\* outcome of the sort by y.
MatchStage(kps, order, predicted) ==
  LET m == matchFeatures(kps, order, previous_frame_ptr_.kps, predicted)
  IN  [m |-> m,
       st1 |-> ContinuedTracks(m.matches, previous_frame_ptr_.ids,
                               previous_track_lengths_, kps)]

\* Lines 110-126: the sorted candidate lists the call may work with (none to
\* choose when the call aborts before).
SortedCandidates(kps, pre) ==
  IF pre.m.abort # "none" \/ pre.st1.abort # "none" THEN {<<>>}
  ELSE SortedByScore(NewTrackCandidates(pre.m.matches, pre.st1.ids), pre.m.matches, kps)

\* Lines 53-204 for one outcome of the two sorts: the call record of a completed
\* or aborted tracking call (kind "track" or "fatal"), with next_id the value of
\* current_track_id_ it leaves.  cands is the sorted candidate list.
TrackingOutcome(kps, pre, cands) ==
  LET prev == previous_frame_ptr_
      base == [NoCall EXCEPT !.kps = kps,
                 !.prev_ids_before = prev.ids, !.prev_ids_after = prev.ids,
                 !.prev_lens_before = previous_track_lengths_,
                 !.id_before = current_track_id_]
      m    == pre.m
      st1  == pre.st1
      adm  == Admission(m.matches, prev.ids, previous_track_lengths_, kps, cands, st1)
      led  == Ledger(adm, prev.ids, current_track_id_)
  IN  IF m.abort # "none"
        THEN [call |-> [base EXCEPT !.kind = "fatal", !.check = m.abort,
                                    !.matches = m.matches],
              next_id |-> current_track_id_]
      ELSE IF st1.abort # "none"
        THEN [call |-> [base EXCEPT !.kind = "fatal", !.check = st1.abort,
                                    !.matches = m.matches],
              next_id |-> current_track_id_]
      ELSE IF adm.abort # "none"
        THEN [call |-> [base EXCEPT !.kind = "fatal", !.check = adm.abort,
                                    !.matches = m.matches, !.candidates = cands],
              next_id |-> current_track_id_]
      ELSE [call |-> [base EXCEPT
                        !.kind = IF led.abort = "none" THEN "track" ELSE "fatal",
                        !.check = led.abort,
                        !.matches = m.matches, !.candidates = cands,
                        !.new_tracks = adm.new_tracks, !.how = adm.how,
                        !.prev_ids_after = led.prev_ids,
                        !.allocated = led.allocated,
                        !.ids = led.ids, !.lens = led.lens],
            next_id |-> led.next_id]

\* addFrame, lines 40-211: a frame with keypoints after a previous frame.  A failed
\* CHECK aborts the program: the call record says which, the previous frame keeps
\* the ids written so far, and the frame does not become the previous frame.
AddFrameTrack ==
  /\ call.kind # "fatal"
  /\ \E kps \in FrameKeypoints, ts \in Timestamps :
       /\ ~Initializes(kps)
       /\ IF ~(ts > previous_frame_ptr_.ts)
            THEN /\ call' = [NoCall EXCEPT !.kind = "fatal", !.check = "timestamp",
                               !.kps = kps,
                               !.prev_ids_before = previous_frame_ptr_.ids,
                               !.prev_ids_after = previous_frame_ptr_.ids,
                               !.prev_lens_before = previous_track_lengths_,
                               !.id_before = current_track_id_]
                 /\ UNCHANGED <<previous_frame_ptr_, previous_track_lengths_,
                                current_track_id_>>
            ELSE \E order \in SortedByY(kps), shift \in Shifts :
                   \E pre \in {MatchStage(kps, order,
                                 PredictedKeypoints(previous_frame_ptr_.kps, shift))} :
                     \E cands \in SortedCandidates(kps, pre) :
                       \E out \in {TrackingOutcome(kps, pre, cands)} :
                         /\ call' = out.call
                         /\ current_track_id_' = out.next_id
                         /\ IF out.call.kind = "track"
                              THEN /\ previous_frame_ptr_' =
                                        [present |-> TRUE, ts |-> ts, kps |-> kps,
                                         ids |-> out.call.ids]
                                   /\ previous_track_lengths_' = out.call.lens
                              ELSE /\ previous_frame_ptr_' =
                                        [previous_frame_ptr_ EXCEPT
                                           !.ids = out.call.prev_ids_after]
                                   /\ UNCHANGED previous_track_lengths_
  /\ UNCHANGED probe

Next == AddFrameInitialize \/ AddFrameTrack

Spec == Init /\ [][Next]_vars

(***************************************************************************)
(* Properties of addFrame.                                                 *)
(***************************************************************************)
\* No non-negative id occurs twice in a track-id channel.
UniqueIds(ids) ==
  \A a, b \in 1..Len(ids) : (a # b /\ ids[a] >= 0) => ids[a] # ids[b]

\* The last call completed the tracking branch (it did not initialize or abort).
Tracked == call.kind = "track"

\* C1: after every addFrame call the track-id channel of the current frame (now
\* the previous frame of the tracker) and of the back-filled previous frame hold
\* no non-negative id twice, also when several previous keypoints match one
\* current keypoint.
C1_TrackIdsUnique ==
  /\ UniqueIds(previous_frame_ptr_.ids)
  /\ UniqueIds(call.prev_ids_after)

\* Two previous keypoints matched the same current keypoint, which got an id.
C1_Witness ==
  /\ Tracked
  /\ \E a, b \in 1..Len(call.matches) :
       /\ a # b
       /\ call.matches[a][2] = call.matches[b][2]
       /\ previous_frame_ptr_.ids[call.matches[a][2]] >= 0

\* C2: the id counter never decreases, and the ids the ledger hands out in a call
\* are strictly increasing and greater than the counter before the call, which
\* bounds every id handed out earlier; so no id is assigned to two tracks.
C2_IdsNeverReused ==
  [][/\ current_track_id_' >= current_track_id_
     /\ \A id \in Range(previous_frame_ptr_.ids) : id <= current_track_id_
     /\ \A k \in 1..Len(call'.allocated) :
          /\ call'.allocated[k] > current_track_id_
          /\ call'.allocated[k] <= current_track_id_'
          /\ k > 1 => call'.allocated[k] > call'.allocated[k - 1]]_vars

\* A call that handed out an id after earlier calls had handed out ids.
C2_Witness ==
  /\ Tracked
  /\ call.id_before > kInitialTrackId
  /\ Len(call.allocated) >= 1

\* C3: after a tracking call, a current keypoint has a positive track length
\* exactly if its track id is not -1.
C3_LengthIffTracked ==
  Tracked =>
    \A j \in 1..Len(previous_frame_ptr_.ids) :
      (previous_track_lengths_[j] > 0) <=> (previous_frame_ptr_.ids[j] # -1)

\* C4: after a tracking call, every non-negative id of a current keypoint j is
\* the non-negative id the previous frame carried at a previous index matched to
\* j, or an id handed out in this call and also written to the previous frame at
\* a matched previous index that was untracked.
C4_IdsComeFromMatches ==
  Tracked =>
    \A j \in 1..Len(call.ids) :
      call.ids[j] >= 0 =>
        \E k \in 1..Len(call.matches) :
          /\ call.matches[k][2] = j
          /\ \/ /\ call.prev_ids_before[call.matches[k][1]] >= 0
                /\ call.prev_ids_before[call.matches[k][1]] = call.ids[j]
             \/ /\ call.ids[j] \in Range(call.allocated)
                /\ call.prev_ids_before[call.matches[k][1]] = -1
                /\ call.prev_ids_after[call.matches[k][1]] = call.ids[j]

\* A frame with a continued track and a track born in the same call.
C4_Witness ==
  /\ Tracked
  /\ \E j \in 1..Len(call.ids) : call.ids[j] \in Range(call.allocated)
  /\ \E j \in 1..Len(call.ids) : call.ids[j] \in Range(call.prev_ids_before) \ {-1}

\* C5: on well-formed inputs (strictly increasing timestamps) addFrame completes
\* without a failed CHECK; in particular the ledger never meets an accepted match
\* with an untracked current keypoint and a tracked previous keypoint.
C5_AddFrameTotal ==
  call.kind = "fatal" => call.check = "timestamp"

\* C6: after a tracking call, a current keypoint with a continued track has the
\* length of the previous keypoint its id was copied from plus 1, and a current
\* keypoint whose track was born in the call has length 2.
C6_TrackLengths ==
  Tracked =>
    \A j \in 1..Len(call.ids) :
      call.ids[j] >= 0 =>
        IF call.ids[j] \in Range(call.allocated)
          THEN call.lens[j] = 2
          ELSE \E k \in 1..Len(call.matches) :
                 /\ call.matches[k][2] = j
                 /\ call.prev_ids_before[call.matches[k][1]] = call.ids[j]
                 /\ call.lens[j] = call.prev_lens_before[call.matches[k][1]] + 1

\* A track continued into its third frame.
C6_Witness ==
  /\ Tracked
  /\ \E j \in 1..Len(call.ids) :
       /\ call.ids[j] >= 0
       /\ call.ids[j] \notin Range(call.allocated)
       /\ call.lens[j] = 3

\* C7: the first call, and any later call with a frame without keypoints, only
\* initializes: all track ids of the frame are -1, the stored lengths are one 0
\* per keypoint, the id counter is unchanged, nothing is matched, and the frame
\* becomes the previous frame.
C7_Initialization ==
  [][(~previous_frame_ptr_.present \/ Len(call'.kps) = 0) =>
       /\ call'.kind = "init"
       /\ call'.matches = <<>>
       /\ previous_frame_ptr_'.present
       /\ previous_frame_ptr_'.kps = call'.kps
       /\ previous_frame_ptr_'.ids = [k \in 1..Len(call'.kps) |-> -1]
       /\ previous_track_lengths_' = [k \in 1..Len(call'.kps) |-> 0]
       /\ current_track_id_' = current_track_id_]_vars

\* A frame without keypoints arrived after tracks had been born.
C7_Witness ==
  /\ call.kind = "init"
  /\ Len(call.kps) = 0
  /\ \E k \in 1..Len(call.prev_lens_before) : call.prev_lens_before[k] > 0
  /\ current_track_id_ > kInitialTrackId

(***************************************************************************)
(* The admission stage of addFrame on its own (lines 82-180), on match     *)
(* lists longer than kNumberOfKeyPointsUseStrong.                          *)
(***************************************************************************)
\* Current keypoints of the admission inputs: one position per bucket.
AdmissionPool ==
  { [x |-> 4,  y |-> 4,  score |-> 0],
    [x |-> 4,  y |-> 4,  score |-> 1],
    [x |-> 4,  y |-> 4,  score |-> 2],
    [x |-> 20, y |-> 4,  score |-> 3],
    [x |-> 4,  y |-> 12, score |-> 4],
    [x |-> 20, y |-> 12, score |-> 5] }

\* Previous keypoint k is matched to current keypoint k; the first `tracked`
\* previous keypoints carry the ids 1..tracked and a length of 2, the others are
\* untracked.
AdmissionInputs ==
  {[op |-> "admission_input", kps |-> kps,
    matches |-> [k \in 1..Len(kps) |-> <<k, k>>],
    prev_ids |-> [k \in 1..Len(kps) |-> IF k <= tracked THEN k ELSE -1],
    prev_lens |-> [k \in 1..Len(kps) |-> IF k <= tracked THEN 2 ELSE 0]] :
     kps \in UNION {[1..n -> AdmissionPool] : n \in 0..MaxMatches},
     tracked \in 0..2}

InitAdmission ==
  /\ previous_frame_ptr_ = NullFrame
  /\ previous_track_lengths_ = <<>>
  /\ current_track_id_ = kInitialTrackId
  /\ call = NoCall
  /\ probe \in AdmissionInputs

\* Lines 82-180 applied to the input held in probe.
ApplyAdmission ==
  /\ probe.op = "admission_input"
  /\ \E st1 \in {ContinuedTracks(probe.matches, probe.prev_ids, probe.prev_lens,
                                 probe.kps)} :
       \E cands \in SortedByScore(NewTrackCandidates(probe.matches, st1.ids),
                                  probe.matches, probe.kps) :
         \E adm \in {Admission(probe.matches, probe.prev_ids, probe.prev_lens,
                               probe.kps, cands, st1)} :
           probe' = [op |-> "admission", kps |-> probe.kps,
                     matches |-> probe.matches, prev_ids |-> probe.prev_ids,
                     candidates |-> cands, new_tracks |-> adm.new_tracks,
                     how |-> adm.how, abort |-> adm.abort]
  /\ UNCHANGED <<previous_frame_ptr_, previous_track_lengths_, current_track_id_, call>>

SpecAdmission == InitAdmission /\ [][ApplyAdmission]_vars

\* The number of matches of the admission result whose previous keypoint is tracked.
ContinuedCount ==
  Cardinality({k \in 1..Len(probe.matches) :
                 probe.prev_ids[probe.matches[k][1]] >= 0})

\* C8: the number of accepted matches (continued, unconditional and strong) of a
\* call is at most kNumberOfKeyPointsUseStrong plus the number of continued
\* tracks.
C8_AcceptedAtMostStrongPlusContinued ==
  probe.op = "admission" =>
    Len(probe.new_tracks) <= kNumberOfKeyPointsUseStrong + ContinuedCount

\* More new-track candidates than kNumberOfKeyPointsUseStrong, of which exactly
\* that many are accepted.
C8_Witness ==
  /\ probe.op = "admission"
  /\ Len(probe.candidates) > kNumberOfKeyPointsUseStrong
  /\ Len(probe.new_tracks) = kNumberOfKeyPointsUseStrong + ContinuedCount

(***************************************************************************)
(* The bit distance kernel on its own.                                     *)
(***************************************************************************)
\* Byte values the kernel is tried on.
KernelBytes == {0, 15, 170, 255}

KernelDescriptors == UNION {[1..d -> KernelBytes] : d \in 1..MaxKernelBytes}

InitKernel ==
  /\ previous_frame_ptr_ = NullFrame
  /\ previous_track_lengths_ = <<>>
  /\ current_track_id_ = kInitialTrackId
  /\ call = NoCall
  /\ probe \in {[op |-> "kernel_input", a |-> a, b |-> b, c |-> c] :
                  a \in KernelDescriptors,
                  b \in KernelDescriptors,
                  c \in KernelDescriptors}
  /\ Len(probe.a) = Len(probe.b)
  /\ Len(probe.b) = Len(probe.c)

\* hammingDistance512 applied to the pairs of the three descriptors in probe.
ApplyKernel ==
  /\ probe.op = "kernel_input"
  /\ probe' = [op |-> "kernel", a |-> probe.a, b |-> probe.b, c |-> probe.c,
               aa |-> hammingDistance512(probe.a, probe.a),
               ab |-> hammingDistance512(probe.a, probe.b),
               ba |-> hammingDistance512(probe.b, probe.a),
               bc |-> hammingDistance512(probe.b, probe.c),
               ac |-> hammingDistance512(probe.a, probe.c)]
  /\ UNCHANGED <<previous_frame_ptr_, previous_track_lengths_, current_track_id_, call>>

SpecKernel == InitKernel /\ [][ApplyKernel]_vars

\* The number of bit positions in which two bytes differ.
DifferingBits(x, y) ==
  Cardinality({k \in 0..7 : (x \div (2 ^ k)) % 2 # (y \div (2 ^ k)) % 2})

RECURSIVE SumDifferingBits(_, _, _)
SumDifferingBits(x, y, i) ==
  IF i > Len(x) THEN 0
  ELSE DifferingBits(x[i], y[i]) + SumDifferingBits(x, y, i + 1)

\* C9: on D-byte descriptors the kernel raises no error and returns the sum over
\* the bytes of popcount(a[i] XOR b[i]); so the distance of a descriptor to
\* itself is 0, to its complement 8 * D, the distance is symmetric and satisfies
\* the triangle inequality.
C9_KernelIsHammingDistance ==
  probe.op = "kernel" =>
    /\ \A r \in {probe.aa, probe.ab, probe.ba, probe.bc, probe.ac} : r.abort = "none"
    /\ probe.ab.distance = SumDifferingBits(probe.a, probe.b, 1)
    /\ probe.aa.distance = 0
    /\ (\A i \in 1..Len(probe.a) : probe.b[i] = 255 - probe.a[i]) =>
         probe.ab.distance = 8 * Len(probe.a)
    /\ probe.ab.distance = probe.ba.distance
    /\ probe.ac.distance <= probe.ab.distance + probe.bc.distance

(***************************************************************************)
(* linearTriangulateFromNViews: the status returned for n measurements     *)
(* when the decomposition reports the given rank.                          *)
(***************************************************************************)
\* size_t arithmetic wraps modulo a power of two (2^64); the comparison of a
\* wrapped difference of two small numbers with 3 comes out the same modulo any
\* power of two above them, and 2^30 fits the 32-bit integers of TLC.
SizeMax == 2 ^ 30

\* Lines 88-119, with rank the value of qr.rank().
linearTriangulateFromNViews(n, rank) ==
  IF n < 2 THEN "TOO_FEW_MEASUREMENTS"
  ELSE IF ((rank - n) % SizeMax) < 3 THEN "UNOBSERVABLE"
  ELSE "SUCCESSFUL"

InitTriangulation ==
  /\ previous_frame_ptr_ = NullFrame
  /\ previous_track_lengths_ = <<>>
  /\ current_track_id_ = kInitialTrackId
  /\ call = NoCall
  /\ probe = [op |-> "none"]

\* A call with n measurements; the matrix A is 3n x (3 + n), so the rank reported
\* lies in 0..min(3n, n + 3).  G_point is written on success only.
Triangulate ==
  /\ \E n \in 0..MaxMeasurements :
       \E rank \in 0..(IF n < 2 THEN 0 ELSE Min(3 * n, n + 3)) :
         probe' = [op |-> "triangulation", n |-> n, rank |-> rank,
                   status |-> linearTriangulateFromNViews(n, rank),
                   point_written |->
                     linearTriangulateFromNViews(n, rank) = "SUCCESSFUL"]
  /\ UNCHANGED <<previous_frame_ptr_, previous_track_lengths_, current_track_id_, call>>

SpecTriangulation == InitTriangulation /\ [][Triangulate]_vars

\* C10: the triangulation returns TOO_FEW_MEASUREMENTS when n < 2; for n >= 2 it
\* returns UNOBSERVABLE whenever rank - n < 3 as integers, and SUCCESSFUL only
\* otherwise.
C10_TriangulationStatus ==
  probe.op = "triangulation" =>
    probe.status = IF probe.n < 2 THEN "TOO_FEW_MEASUREMENTS"
                   ELSE IF probe.rank - probe.n < 3 THEN "UNOBSERVABLE"
                   ELSE "SUCCESSFUL"

(***************************************************************************)
(* Timestamps of the frames addFrame accepts.                              *)
(***************************************************************************)
\* C11: whenever a previous frame exists, a call whose frame has a timestamp that
\* is not strictly greater than the previous frame's ends in a fatal CHECK and
\* the frame does not become the previous frame, whatever its number of
\* keypoints; so every call that completes after a previous frame leaves a
\* previous frame with a strictly greater timestamp.
C11_TimestampOrderEnforced ==
  [][(previous_frame_ptr_.present /\ call'.kind # "fatal")
       => previous_frame_ptr_'.ts > previous_frame_ptr_.ts]_vars

(***************************************************************************)
(* Several matches onto one current keypoint.                              *)
(***************************************************************************)
\* The positions in matches_prev_current of the matches onto current keypoint j.
MatchesOnto(j) == {k \in 1..Len(call.matches) : call.matches[k][2] = j}

\* The previous keypoint of the last match onto current keypoint j.
LastPreviousOf(j) ==
  call.matches[CHOOSE k \in MatchesOnto(j) : \A l \in MatchesOnto(j) : l <= k][1]

\* C14: when several matches of a call share the current keypoint j, the id and
\* length of j come from the last of them in match order: the id and length + 1
\* of its previous keypoint when that one is tracked, otherwise (when j ends with
\* an id) an id allocated in the call and back-filled at that previous keypoint,
\* with length 2.
C14_LastMatchWins ==
  Tracked =>
    \A j \in 1..Len(call.kps) :
      Cardinality(MatchesOnto(j)) >= 2 =>
        IF call.prev_ids_before[LastPreviousOf(j)] >= 0
          THEN /\ call.ids[j] = call.prev_ids_before[LastPreviousOf(j)]
               /\ call.lens[j] = call.prev_lens_before[LastPreviousOf(j)] + 1
          ELSE IF call.ids[j] >= 0
                 THEN /\ call.ids[j] \in Range(call.allocated)
                      /\ call.prev_ids_after[LastPreviousOf(j)] = call.ids[j]
                      /\ call.lens[j] = 2
                 ELSE call.lens[j] = call.prev_lens_before[LastPreviousOf(j)] + 1

(***************************************************************************)
(* matchFeatures on its own: the row lookup table and the match search.    *)
(***************************************************************************)
\* The position most predictions of the match inputs point at.
MatchCentre == [x |-> 10, y |-> ImageHeight - 6]

\* Current keypoints of the match inputs: at the centre, 3 and 8 pixels to its
\* right, and 5 rows below it in the last row of the image.
MatchPool ==
  {[x |-> pos[1], y |-> pos[2], desc |-> d, score |-> 2] :
     pos \in {<<MatchCentre.x, MatchCentre.y>>,
              <<MatchCentre.x + 3, MatchCentre.y>>,
              <<MatchCentre.x + 8, MatchCentre.y>>,
              <<MatchCentre.x, ImageHeight - 1>>},
     d \in DescriptorNames}

\* Previous keypoints of the match inputs: the descriptor, whether backProject3
\* and project3 succeeded, and the value predicted_keypoint holds after them
\* (lines 269-281; the cameras are not part of the tracker, a failed projection
\* leaves some value as well).
PreviousPool ==
  {[desc |-> d, ok |-> ok, pred |-> pred] :
     d \in {"zero", "near"}, ok \in BOOLEAN,
     pred \in {MatchCentre, [x |-> MatchCentre.x - 6, y |-> MatchCentre.y - 6]}}

InitMatch ==
  /\ previous_frame_ptr_ = NullFrame
  /\ previous_track_lengths_ = <<>>
  /\ current_track_id_ = kInitialTrackId
  /\ call = NoCall
  /\ probe \in {[op |-> "match_input", kps |-> kps, prev |-> prev] :
                  kps \in UNION {[1..n -> MatchPool] : n \in 0..MaxKeypoints},
                  prev \in UNION {[1..n -> PreviousPool] : n \in 1..MaxKeypoints}}

\* Lines 342-352: the positions in the sorted keypoints of the range the search
\* visits for the rows idx0..idx1.
RowQuery(lut, idx0, idx1) ==
  LET top == Min(idx0, Len(lut) - 1)
      bottom == Min(idx1 + 1, Len(lut) - 1)
  IN  {v \in 1..lut[bottom + 1] : v > lut[top + 1]}

\* matchFeatures applied to the input held in probe, for one outcome of the sort.
ApplyMatch ==
  /\ probe.op = "match_input"
  /\ \E order \in SortedByY(probe.kps) :
       \E m \in {matchFeatures(probe.kps, order, probe.prev,
                               [i \in 1..Len(probe.prev) |-> probe.prev[i].pred])} :
         probe' = [op |-> "match", kps |-> probe.kps, prev |-> probe.prev,
                   order |-> order, lut |-> corner_row_LUT(probe.kps, order),
                   abort |-> m.abort, matches |-> m.matches]
  /\ UNCHANGED <<previous_frame_ptr_, previous_track_lengths_, current_track_id_, call>>

SpecMatch == InitMatch /\ [][ApplyMatch]_vars

\* The matches emitted for previous keypoint i.
Emitted(i) == {m \in Range(probe.matches) : m[1] = i}

\* The bit distance between previous keypoint i and current keypoint j.
MatchDistance(i, j) ==
  DescriptorDistance(probe.prev[i].desc, probe.kps[j].desc).distance

\* The current keypoints whose row and x are within radius of the prediction of
\* previous keypoint i and whose distance is below kMatchingThresholdBits.
WindowMatches(i, radius) ==
  {j \in 1..Len(probe.kps) :
     /\ probe.kps[j].x - probe.prev[i].pred.x \in (0 - radius)..radius
     /\ probe.kps[j].y - probe.prev[i].pred.y \in (0 - radius)..radius
     /\ MatchDistance(i, j) < kMatchingThresholdBits}

\* The position of current keypoint j in the order of iteration.
IterationPosition(j) == CHOOSE v \in 1..Len(probe.order) : probe.order[v] = j

\* The keypoint of the non-empty set S with the lowest distance to previous
\* keypoint i, the first in iteration order among those.
BestOf(S, i) ==
  CHOOSE j \in S :
    \A k \in S :
      \/ MatchDistance(i, j) < MatchDistance(i, k)
      \/ /\ MatchDistance(i, j) = MatchDistance(i, k)
         /\ IterationPosition(j) <= IterationPosition(k)

\* C12: for each previous keypoint whose prediction succeeded the search emits
\* the lowest-distance keypoint (first in iteration order on ties) among those of
\* the small window with distance < 120 if there is one, otherwise the
\* lowest-distance one of the large window with distance < 120, otherwise
\* nothing; no emitted match has distance >= 120.
C12_MatchSearch ==
  probe.op = "match" =>
    /\ probe.abort = "none"
    /\ \A m \in Range(probe.matches) :
         MatchDistance(m[1], m[2]) < kMatchingThresholdBits
    /\ \A i \in 1..Len(probe.prev) :
         probe.prev[i].ok =>
           Emitted(i) =
             IF WindowMatches(i, min_search_radius) # {}
               THEN {<<i, BestOf(WindowMatches(i, min_search_radius), i)>>}
             ELSE IF WindowMatches(i, search_radius) # {}
               THEN {<<i, BestOf(WindowMatches(i, search_radius), i)>>}
             ELSE {}

\* C13: for all rows y_lo <= y_hi of the image, the last row included, the range
\* [LUT[y_lo], LUT[min(y_hi + 1, H - 1)]) of the sorted keypoints holds exactly
\* the keypoints whose row is in [y_lo, y_hi].
C13_RowLookup ==
  probe.op = "match" =>
    \A y_lo \in 0..ImageHeight - 1 :
      \A y_hi \in y_lo..ImageHeight - 1 :
        {probe.order[v] : v \in RowQuery(probe.lut, y_lo, y_hi)} =
          {j \in 1..Len(probe.kps) :
             probe.kps[j].y >= y_lo /\ probe.kps[j].y <= y_hi}

\* C15: a previous keypoint whose back-projection or re-projection failed
\* contributes no match, no fatal error occurs, and every other previous
\* keypoint gets the match it gets when searched for alone.
C15_FailedProjectionSkipped ==
  probe.op = "match" =>
    /\ probe.abort = "none"
    /\ \A i \in 1..Len(probe.prev) :
         IF probe.prev[i].ok
           THEN {m[2] : m \in Emitted(i)} =
                  {m[2] : m \in Range(matchFeatures(probe.kps, probe.order,
                                        <<probe.prev[i]>>,
                                        <<probe.prev[i].pred>>).matches)}
           ELSE Emitted(i) = {}

(***************************************************************************)
(* Bucket occupancy under the admission stage.                             *)
(***************************************************************************)
\* num_pts_per_bucket (line 154).
StrongCap == kNumberOfKeyPointsUseStrong \div NumBuckets

\* The number of matches the given stage accepted into bucket b.
AcceptedInto(b, stage) ==
  Cardinality({k \in 1..Len(probe.how) :
                 probe.how[k].bin = b /\ probe.how[k].stage = stage})

\* The new-track candidates of bucket b whose score reaches the strong threshold.
StrongCandidatesOf(b) ==
  {c \in Range(probe.candidates) :
     /\ compute_bin_index(probe.kps[probe.matches[c][2]]) = b
     /\ probe.kps[probe.matches[c][2]].score >= kKeypointScoreThresholdStrong}

\* C16: when a bucket without continued tracks holds more new-track candidates
\* with score >= T_STRONG than cap = N_STRONG / (B*B), strong admission accepts
\* exactly cap candidates from it, on top of the unconditional admissions that
\* landed there.
C16_BucketSaturation ==
  probe.op = "admission" =>
    \A b \in 0..NumBuckets - 1 :
      (Cardinality(StrongCandidatesOf(b)) > StrongCap /\ AcceptedInto(b, "continued") = 0)
        => AcceptedInto(b, "strong") = StrongCap

\* C17: after a strong admission into bucket b, the occupancy of b (continued,
\* unconditional and strong admissions of the call) is at most cap plus the
\* number of continued tracks in b.
C17_StrongOccupancyBounded ==
  probe.op = "admission" =>
    \A k \in 1..Len(probe.how) :
      probe.how[k].stage = "strong" =>
        probe.how[k].size <= StrongCap + AcceptedInto(probe.how[k].bin, "continued")

\* A strong admission that fills its bucket up to the cap while another bucket
\* holds a continued track and a further candidate of the same bucket is turned
\* away.
C17_Witness ==
  /\ probe.op = "admission"
  /\ \E k \in 1..Len(probe.how) :
       /\ probe.how[k].stage = "strong"
       /\ probe.how[k].size = StrongCap
       /\ Cardinality(StrongCandidatesOf(probe.how[k].bin)) > StrongCap
  /\ \E b \in 0..NumBuckets - 1 : AcceptedInto(b, "continued") > 0

====
